---------------------------- MODULE Spec2Model ----------------------------
(***************************************************************************)
(* A model of src/retail_performance_analysis.py: the RetailAnalytics      *)
(* object (self.data and its analysis methods) and main().                 *)
(*                                                                         *)
(* Numbers.  A pandas/numpy float that the program computes is modelled    *)
(* as a value of Num: an exact rational, NaN, or a signed infinity.  Every *)
(* numeric cell of the dataset is a multiple of 1/8, which binary64 holds  *)
(* exactly, so sums of cells are exact in the program as in the model.     *)
(* The growth columns of time_series_analysis are modelled bit for bit as  *)
(* binary64 values (F64), since a claim speaks of their exact value.       *)
(***************************************************************************)
EXTENDS Integers, Sequences, FiniteSets, TLC

\* data, columns: the rows and the column names of self.data
\* last:          the method called last
\* returned:      what it returned
\* printed:       what it printed
\* raised:        the exception it raised, or NoException
\* pc, stderr:    main's position, and the tracebacks written
VARIABLES data, columns, last, returned, printed, raised, pc, stderr

vars == <<data, columns, last, returned, printed, raised, pc, stderr>>

(***************************************************************************)
(* Bounds of the model.                                                    *)
(***************************************************************************)
\* rows of a dataset
MaxRows == 3
\* rows of the CSV file of a run of main
MainRows == 2
\* expected columns the CSV file of a run lacks
MaxMissing == 1
\* stores of the per-store datasets
NumStores == 11
\* stores of low margin, and stores without sales, among them
MaxLow == 2
MaxIdle == 1

(***************************************************************************)
(* Num: the float values of the program, exactly.                          *)
(***************************************************************************)
Abs(x) == IF x < 0 THEN -x ELSE x

Sign(x) == IF x < 0 THEN -1 ELSE IF x > 0 THEN 1 ELSE 0

RECURSIVE GCD(_, _)
GCD(a, b) == IF b = 0 THEN a ELSE GCD(b, a % b)

NaN == [k |-> "nan", n |-> 0, d |-> 1]

Inf(s) == [k |-> "inf", n |-> s, d |-> 0]

\* the rational n/d (d > 0) in lowest terms
RatOf(n, d) ==
    LET g == GCD(Abs(n), d)
    IN  [k |-> "fin", n |-> n \div g, d |-> d \div g]

Zero == RatOf(0, 1)

IsFin(x) == x.k = "fin"

IsNaN(x) == x.k = "nan"

\* float addition
NumAdd(x, y) ==
    IF IsNaN(x) \/ IsNaN(y) THEN NaN
    ELSE IF x.k = "inf" /\ y.k = "inf" THEN (IF x.n = y.n THEN x ELSE NaN)
    ELSE IF x.k = "inf" THEN x
    ELSE IF y.k = "inf" THEN y
    ELSE RatOf(x.n * y.d + y.n * x.d, x.d * y.d)

\* float multiplication
NumMul(x, y) ==
    IF IsNaN(x) \/ IsNaN(y) THEN NaN
    ELSE IF x.k = "inf" \/ y.k = "inf"
         THEN (IF Sign(x.n) * Sign(y.n) = 0 THEN NaN ELSE Inf(Sign(x.n) * Sign(y.n)))
    ELSE RatOf(x.n * y.n, x.d * y.d)

\* float division as numpy and pandas do it: x/0 is +-inf, 0/0 is NaN, and
\* nothing is raised
NumDiv(x, y) ==
    IF IsNaN(x) \/ IsNaN(y) THEN NaN
    ELSE IF x.k = "inf" THEN (IF y.k = "inf" THEN NaN
                              ELSE Inf(x.n * (IF y.n < 0 THEN -1 ELSE 1)))
    ELSE IF y.k = "inf" THEN Zero
    ELSE IF y.n = 0 THEN (IF x.n = 0 THEN NaN ELSE Inf(Sign(x.n)))
    ELSE RatOf(x.n * y.d * Sign(y.n), x.d * Abs(y.n))

Pow10(p) == IF p = 0 THEN 1 ELSE IF p = 1 THEN 10 ELSE 100

\* n/d (d > 0) rounded to the nearest integer, ties to the even one
RoundHalfEven(n, d) ==
    LET q == n \div d
        r == n % d
    IN  IF 2 * r < d THEN q
        ELSE IF 2 * r > d THEN q + 1
        ELSE IF q % 2 = 0 THEN q ELSE q + 1

\* Series.round(p) / DataFrame.round(p): p decimals, ties to even; NaN and
\* the infinities are left as they are
Round(x, p) ==
    IF ~IsFin(x) THEN x
    ELSE RatOf(RoundHalfEven(x.n * Pow10(p), x.d), Pow10(p))

NumLess(x, y) == x.n * y.d < y.n * x.d

\* a cell of the dataset: v eighths
Cell(v) == RatOf(v, 8)

Whole(v) == RatOf(v, 1)

(***************************************************************************)
(* The dataset.  A row is one line of the CSV file.  A missing cell of a   *)
(* categorical column is NA.  Strings sort as Python sorts them; Lexicon   *)
(* lists the model's strings in that order.  A row carries the cells the   *)
(* reports' sums, means and keys are taken from; the other columns of the  *)
(* file (gross_margin_pct, avg_basket_value, inventory_turnover_ratio,     *)
(* customer_satisfaction_score, total_items_sold) are carried by name in   *)
(* columns, where their absence makes a method raise.                      *)
(***************************************************************************)
Range(s) == {s[i] : i \in DOMAIN s}

NA == "NaN"

Lexicon ==
    <<"A", "B", "C", "East", "Electronics", "Fashion", "Grocery", "Metro",
      "North", "S01", "S02", "S03", "S04", "S05", "S06", "S07", "S08", "S09",
      "S10", "S11", "S12", "S13", "South", "Tier_1", "Tier_2", "West">>

Rank(s) == CHOOSE i \in DOMAIN Lexicon : Lexicon[i] = s

AllColumns ==
    {"store_id", "chain_name", "category", "region", "tier", "year", "month",
     "sales_amount", "net_profit", "gross_margin_pct", "net_margin_pct",
     "customer_count", "avg_basket_value", "inventory_turnover_ratio",
     "customer_satisfaction_score", "total_items_sold"}

\* money and percentages are given in eighths (800 is 100.0)
Row(store, chain, cat, reg, tr, y, m, sales, profit, margin, cust) ==
    [store_id |-> store, chain_name |-> chain, category |-> cat, region |-> reg,
     tier |-> tr, year |-> y, month |-> m, sales_amount |-> Cell(sales),
     net_profit |-> Cell(profit), net_margin_pct |-> Cell(margin),
     customer_count |-> Whole(cust)]

\* The rows the model's datasets are made of.
RowPool ==
    { Row("S01", "A", "Fashion", "North", "Metro", 2023, 1, 800, 80, 80, 10),
      Row("S01", "A", "Grocery", "North", "Metro", 2023, 2, 1600, 80, 40, 20),
      Row("S02", "A", "Electronics", "South", "Tier_1", 2024, 1, 2400, 120, 40, 30),
      Row("S02", "B", "Fashion", "South", "Tier_1", 2023, 2, 960, 96, 80, 10),
      Row("S03", "C", "Electronics", "West", "Tier_2", 2023, 1, 0, -8, 0, 0),
      Row(NA, NA, NA, "East", NA, 2023, 2, 8, 8, 800, 0) }

RECURSIVE SeqsUpTo(_, _)
SeqsUpTo(S, n) ==
    IF n = 0 THEN {<<>>}
    ELSE LET shorter == SeqsUpTo(S, n - 1)
         IN  shorter \cup {Append(s, x) : s \in {t \in shorter : Len(t) = n - 1}, x \in S}

Datasets == SeqsUpTo(RowPool, MaxRows) \ {<<>>}

None == [type |-> "None"]

NoException == [type |-> "none"]

(***************************************************************************)
(* F64: an IEEE-754 binary64 value, bit for bit.  A finite nonzero value   *)
(* is (-1)^s * 1.m[2]m[3]...m[53] * 2^e (m[1] = 1), each operation rounded *)
(* to nearest, ties to even, as the hardware rounds it.                    *)
(***************************************************************************)
Zeros(n) == [i \in 1..n |-> 0]

Ones(n) == [i \in 1..n |-> 1]

F64NaN == [k |-> "nan", s |-> 0, e |-> 0, m |-> <<>>]

F64Inf(s) == [k |-> "inf", s |-> s, e |-> 0, m |-> <<>>]

F64Zero(s) == [k |-> "zero", s |-> s, e |-> 0, m |-> <<>>]

Front(b) == SubSeq(b, 1, Len(b) - 1)

RECURSIVE StripZeros(_)
StripZeros(b) ==
    IF b = <<>> THEN <<>> ELSE IF Head(b) = 1 THEN b ELSE StripZeros(Tail(b))

\* b + 1 on Len(b) bits
RECURSIVE IncBits(_)
IncBits(b) ==
    IF b = <<>> THEN <<>>
    ELSE IF b[Len(b)] = 0 THEN Append(Front(b), 1)
    ELSE Append(IncBits(Front(b)), 0)

\* b - 1 on Len(b) bits
RECURSIVE DecBits(_)
DecBits(b) ==
    IF b = <<>> THEN <<>>
    ELSE IF b[Len(b)] = 1 THEN Append(Front(b), 0)
    ELSE Append(DecBits(Front(b)), 1)

Invert(b) == [i \in DOMAIN b |-> 1 - b[i]]

\* a + b + c for bit strings of one length, the carry out in front
RECURSIVE AddWithCarry(_, _, _)
AddWithCarry(a, b, c) ==
    IF a = <<>> THEN <<c>>
    ELSE LET t == a[Len(a)] + b[Len(b)] + c
         IN  IF t < 2 THEN Append(AddWithCarry(Front(a), Front(b), 0), t)
             ELSE Append(AddWithCarry(Front(a), Front(b), 1), t - 2)

AddBits(a, b) ==
    LET n == IF Len(a) > Len(b) THEN Len(a) ELSE Len(b)
    IN  AddWithCarry(Zeros(n - Len(a)) \o a, Zeros(n - Len(b)) \o b, 0)

\* The value 1.b[2]b[3]... * 2^e (b[1] = 1, any length) rounded to 53 bits.
RoundBits(s, e, b) ==
    IF Len(b) <= 53
    THEN [k |-> "fin", s |-> s, e |-> e, m |-> b \o Zeros(53 - Len(b))]
    ELSE LET top == SubSeq(b, 1, 53)
             up == /\ b[54] = 1
                   /\ \/ top[53] = 1
                      \/ \E i \in 55..Len(b) : b[i] = 1
         IN  IF ~up THEN [k |-> "fin", s |-> s, e |-> e, m |-> top]
             ELSE IF top = Ones(53)
                  THEN [k |-> "fin", s |-> s, e |-> e + 1, m |-> <<1>> \o Zeros(52)]
             ELSE [k |-> "fin", s |-> s, e |-> e, m |-> IncBits(top)]

\* the first cnt bits of r/d (r < 2d), then one bit more that is 1 iff
\* bits are left over
RECURSIVE DivBits(_, _, _)
DivBits(r, d, cnt) ==
    IF cnt = 0 THEN <<IF r > 0 THEN 1 ELSE 0>>
    ELSE IF r >= d THEN <<1>> \o DivBits(2 * (r - d), d, cnt - 1)
    ELSE <<0>> \o DivBits(2 * r, d, cnt - 1)

\* the e with 2^e <= n/d < 2^(e+1), for n, d > 0
RECURSIVE Log2Floor(_, _)
Log2Floor(n, d) ==
    IF n < d THEN Log2Floor(2 * n, d) - 1
    ELSE IF n >= 2 * d THEN Log2Floor(n, 2 * d) + 1
    ELSE 0

RECURSIVE Pow2(_)
Pow2(n) == IF n = 0 THEN 1 ELSE 2 * Pow2(n - 1)

\* x / y in binary64 for two values binary64 holds exactly, x = n/dn >= 0
\* and y = d/dd >= 0: the exact quotient rounded once
F64Div(x, y) ==
    IF y.n = 0 THEN (IF x.n = 0 THEN F64NaN ELSE F64Inf(0))
    ELSE IF x.n = 0 THEN F64Zero(0)
    ELSE LET n == x.n * y.d
             d == x.d * y.n
             e == Log2Floor(n, d)
             nn == IF e < 0 THEN n * Pow2(-e) ELSE n
             dd == IF e > 0 THEN d * Pow2(e) ELSE d
         IN  RoundBits(0, e, DivBits(nn, dd, 54))

\* x - 1.0
F64SubOne(x) ==
    CASE x.k = "nan" -> x
      [] x.k = "inf" -> x
      [] x.k = "zero" -> [k |-> "fin", s |-> 1, e |-> 0, m |-> <<1>> \o Zeros(52)]
      [] x.k = "fin" /\ x.e >= 0 ->
            \* subtract from the integer part
            LET int == IF x.e + 1 <= 53 THEN SubSeq(x.m, 1, x.e + 1)
                       ELSE x.m \o Zeros(x.e - 52)
                frac == IF x.e + 1 <= 53 THEN SubSeq(x.m, x.e + 2, 53) ELSE <<>>
                all == DecBits(int) \o frac
                b == StripZeros(all)
            IN  IF b = <<>> THEN F64Zero(0)
                ELSE RoundBits(0, x.e - (Len(all) - Len(b)), b)
      [] x.k = "fin" /\ x.e < 0 ->
            \* 1 - x, negated: the two's complement of x's fraction bits
            LET frac == Zeros(-x.e - 1) \o x.m
                all == IncBits(Invert(frac))
                b == StripZeros(all)
            IN  RoundBits(1, -1 - (Len(all) - Len(b)), b)

\* x * 100.0
F64Mul100(x) ==
    IF x.k # "fin" THEN x
    ELSE LET p == AddBits(AddBits(x.m \o Zeros(6), x.m \o Zeros(5)), x.m \o Zeros(2))
             b == StripZeros(p)
         IN  RoundBits(x.s, x.e - 53 + Len(b), b)

\* Series.pct_change() * 100 for a row and the row before it
PctChange100(prev, cur) == F64Mul100(F64SubOne(F64Div(cur, prev)))

(***************************************************************************)
(* pandas: columns, reductions, groupby, sorting and selection.            *)
(***************************************************************************)
\* df[c]
Column(rows, c) == [i \in 1..Len(rows) |-> rows[i][c]]

RECURSIVE SumNum(_)
SumNum(s) == IF s = <<>> THEN Zero ELSE NumAdd(Head(s), SumNum(Tail(s)))

\* Series.sum()
Sum(rows, c) == SumNum(Column(rows, c))

\* Series.mean(): NaN for an empty series
Mean(rows, c) ==
    IF rows = <<>> THEN NaN ELSE NumDiv(Sum(rows, c), Whole(Len(rows)))

\* Series.nunique(): the distinct values, a missing one not counted
NUnique(rows, c) == Cardinality(Range(Column(rows, c)) \ {NA})

IsTimeColumn(c) == c \in {"year", "month"}

KeyOf(r, by) == [i \in 1..Len(by) |-> r[by[i]]]

HasNA(by, key) == \E i \in DOMAIN by : ~IsTimeColumn(by[i]) /\ key[i] = NA

KeyOrd(c, v) == IF IsTimeColumn(c) THEN v ELSE Rank(v)

KeyLess(by, a, b) ==
    \E i \in DOMAIN by :
        /\ KeyOrd(by[i], a[i]) < KeyOrd(by[i], b[i])
        /\ \A j \in 1..(i - 1) : a[j] = b[j]

\* groupby(by): one group per distinct key, the keys sorted (sort=True); a
\* row whose key holds a missing value is in no group (dropna=True)
GroupKeys(rows, by) ==
    LET S == {k \in {KeyOf(rows[i], by) : i \in DOMAIN rows} : ~HasNA(by, k)}
    IN  [i \in 1..Cardinality(S) |->
            CHOOSE x \in S : Cardinality({y \in S : KeyLess(by, y, x)}) = i - 1]

GroupRows(rows, by, k) == SelectSeq(rows, LAMBDA r : KeyOf(r, by) = k)

\* groupby(by)[c].mean(), as rows of key and value
MeanBy(rows, by, c) ==
    LET keys == GroupKeys(rows, by)
    IN  [i \in DOMAIN keys |->
            [key |-> keys[i][1], value |-> Mean(GroupRows(rows, by, keys[i]), c)]]

\* x < y for two values that are not NaN
ValLt(x, y) ==
    IF x.k = "inf" /\ y.k = "inf" THEN x.n < y.n
    ELSE IF x.k = "inf" THEN x.n < 0
    ELSE IF y.k = "inf" THEN y.n > 0
    ELSE NumLess(x, y)

\* x sorts strictly before y, ascending or descending, a NaN last
Precedes(ascending, x, y) ==
    IF IsNaN(x) THEN FALSE
    ELSE IF IsNaN(y) THEN TRUE
    ELSE IF ascending THEN ValLt(x, y) ELSE ValLt(y, x)

Perms(n) == {p \in [1..n -> 1..n] : \A i, j \in 1..n : p[i] = p[j] => i = j}

\* sort_values(by, ascending=...): kind is left at its default, 'quicksort',
\* which is not a stable sort: rows of equal value come out in an order the
\* numpy build chooses.  The set of the orders it can give.
SortValues(tbl, by, ascending) ==
    {[i \in DOMAIN tbl |-> tbl[p[i]]] : p \in
        {q \in Perms(Len(tbl)) :
            \A i, j \in DOMAIN tbl :
                i < j => ~Precedes(ascending, tbl[q[j]][by], tbl[q[i]][by])}}

\* The indices idx of tbl in the order of a stable sort by column by.
StableOrder(idx, tbl, by, ascending) ==
    [i \in 1..Cardinality(idx) |->
        CHOOSE x \in idx :
            Cardinality({y \in idx :
                \/ Precedes(ascending, tbl[y][by], tbl[x][by])
                \/ /\ ~Precedes(ascending, tbl[x][by], tbl[y][by])
                   /\ y < x}) = i - 1]

\* nlargest / nsmallest (n, by), keep='first': the set of the results it
\* can give.  With n rows or fewer the whole column is sorted by
\* sort_values (default kind, not stable); with more, the rows of defined
\* value come in a stable order and rows of undefined value fill what is
\* left of the n.
SelectN(tbl, n, by, ascending) ==
    IF n >= Len(tbl)
    THEN SortValues(tbl, by, ascending)
    ELSE LET dropped == {i \in DOMAIN tbl : ~IsNaN(tbl[i][by])}
             nan_index == StableOrder(DOMAIN tbl \ dropped, tbl, by, ascending)
             inds == StableOrder(dropped, tbl, by, ascending) \o nan_index
         IN  {[i \in 1..n |-> tbl[inds[i]]]}

NLargest(tbl, n, by) == SelectN(tbl, n, by, FALSE)

NSmallest(tbl, n, by) == SelectN(tbl, n, by, TRUE)

\* Series.idxmax() / idxmin(): the first label of the largest (smallest)
\* value
IdxMax(t) ==
    t[CHOOSE i \in DOMAIN t :
        /\ \A j \in DOMAIN t : ~ValLt(t[i].value, t[j].value)
        /\ \A j \in 1..(i - 1) : ValLt(t[j].value, t[i].value)].key

IdxMin(t) ==
    t[CHOOSE i \in DOMAIN t :
        /\ \A j \in DOMAIN t : ~ValLt(t[j].value, t[i].value)
        /\ \A j \in 1..(i - 1) : ValLt(t[i].value, t[j].value)].key

\* DataFrame.tail(n)
TailRows(tbl, n) ==
    IF Len(tbl) <= n THEN tbl ELSE SubSeq(tbl, Len(tbl) - n + 1, Len(tbl))

\* an f-string's {x:.pf}
Format(x, p) == Round(x, p)

Crores(x) == NumDiv(x, Whole(10000000))

Millions(x) == NumDiv(x, Whole(1000000))

\* x / y * 100
Pct(x, y) == NumMul(NumDiv(x, y), Whole(100))

(***************************************************************************)
(* The columns each method reads, in the order it reads them, and the      *)
(* outcome of a call.                                                      *)
(***************************************************************************)
Needs(m) ==
    CASE m = "__init__" -> <<"year", "month">>
      [] m = "data_quality_check" ->
           <<"date", "sales_amount", "net_margin_pct", "store_id", "year", "month">>
      [] m = "financial_analysis" ->
           <<"sales_amount", "net_profit", "net_margin_pct", "chain_name",
             "customer_count", "store_id">>
      [] m = "category_analysis" ->
           <<"category", "sales_amount", "net_profit", "gross_margin_pct",
             "net_margin_pct", "customer_count", "inventory_turnover_ratio">>
      [] m = "regional_analysis" ->
           <<"region", "sales_amount", "net_profit", "store_id", "customer_count",
             "tier", "net_margin_pct", "avg_basket_value",
             "customer_satisfaction_score">>
      [] m = "time_series_analysis" ->
           <<"year", "month", "sales_amount", "net_profit", "customer_count">>
      [] m = "operational_analysis" ->
           <<"store_id", "chain_name", "tier", "sales_amount", "net_profit",
             "customer_count", "total_items_sold", "inventory_turnover_ratio",
             "customer_satisfaction_score">>
      [] m = "statistical_insights" ->
           <<"sales_amount", "gross_margin_pct", "customer_count",
             "avg_basket_value", "inventory_turnover_ratio",
             "customer_satisfaction_score", "tier">>
      [] m = "generate_visualizations" ->
           <<"chain_name", "sales_amount", "net_margin_pct", "customer_count",
             "customer_satisfaction_score", "category", "year", "month",
             "net_profit">>
      [] m = "generate_executive_summary" ->
           <<"sales_amount", "net_profit", "chain_name", "net_margin_pct",
             "category", "region", "store_id">>

HasColumns(m) == Range(Needs(m)) \subseteq columns

\* self.data[c] of a column the dataset does not have
KeyError(m) ==
    LET need == Needs(m)
        i == CHOOSE j \in DOMAIN need :
                 /\ need[j] \notin columns
                 /\ \A h \in 1..(j - 1) : need[h] \in columns
    IN  [type |-> "KeyError", key |-> need[i]]

ValueError == [type |-> "ValueError"]

\* Call, had the method added its derived column to self.data (a variant
\* against which C9 is tried)
CallWritingBack(m, exc, ret, out) ==
    /\ last' = m
    /\ returned' = ret
    /\ printed' = out
    /\ raised' = exc
    /\ data' = data
    /\ columns' = columns \cup {m}

\* A call of method m that returns ret after printing out, or raises exc;
\* self.data is only read.
Call(m, exc, ret, out) ==
    /\ last' = m
    /\ IF exc = NoException
       THEN /\ returned' = ret
            /\ printed' = out
            /\ raised' = NoException
       ELSE /\ returned' = None
            /\ printed' = [section |-> m]
            /\ raised' = exc
    /\ data' = data
    /\ columns' = columns

Outcome(m) == IF HasColumns(m) THEN NoException ELSE KeyError(m)

(***************************************************************************)
(* data_quality_check                                                      *)
(***************************************************************************)
\* len(self.data.groupby(['year', 'month']))
TimePeriods(rows) == Len(GroupKeys(rows, <<"year", "month">>))

data_quality_check ==
    Call("data_quality_check",
         Outcome("data_quality_check"),
         None,
         [section |-> "data_quality_check",
          Shape |-> <<Len(data), Cardinality(columns)>>,
          Total_Revenue |-> Format(Crores(Sum(data, "sales_amount")), 1),
          Average_Margin |-> Format(Mean(data, "net_margin_pct"), 2),
          Stores_Analyzed |-> NUnique(data, "store_id"),
          Time_Periods |-> TimePeriods(data)])

(***************************************************************************)
(* financial_analysis                                                      *)
(***************************************************************************)
total_revenue(rows) == Sum(rows, "sales_amount")

total_profit(rows) == Sum(rows, "net_profit")

avg_margin(rows) == Mean(rows, "net_margin_pct")

\* overall_margin, had it been the mean of the rows' margins (a variant
\* against which C8 is tried)
overall_margin_as_mean(rows) == Mean(rows, "net_margin_pct")

\* (total_profit/total_revenue)*100
overall_margin(rows) == Pct(total_profit(rows), total_revenue(rows))

ChainRow(g, chain) ==
    LET Total_Sales == Round(Sum(g, "sales_amount"), 2)
        Avg_Margin == Round(avg_margin(g), 2)
        Total_Customers == Round(Sum(g, "customer_count"), 2)
    IN  [chain_name |-> chain,
         Total_Sales |-> Total_Sales,
         Avg_Sales |-> Round(Mean(g, "sales_amount"), 2),
         Total_Profit |-> Round(Sum(g, "net_profit"), 2),
         Avg_Margin |-> Avg_Margin,
         Total_Customers |-> Total_Customers,
         Store_Count |-> NUnique(g, "store_id"),
         Sales_Crores |-> Round(Crores(Total_Sales), 1),
         ROI_Score |-> Round(NumDiv(NumMul(Avg_Margin, Total_Customers), Whole(100000)), 2)]

chain_performance(rows) ==
    LET keys == GroupKeys(rows, <<"chain_name">>)
    IN  [i \in DOMAIN keys |->
            ChainRow(GroupRows(rows, <<"chain_name">>, keys[i]), keys[i][1])]

RankingLines(top_chains) ==
    [i \in DOMAIN top_chains |->
        [chain |-> top_chains[i].chain_name,
         Sales_Crores |-> top_chains[i].Sales_Crores,
         margin |-> Format(top_chains[i].Avg_Margin, 2)]]

financial_analysis ==
    LET ok == HasColumns("financial_analysis")
        table == IF ok THEN chain_performance(data) ELSE <<>>
    IN  \E top_chains \in SortValues(table, "Avg_Margin", FALSE) :
            Call("financial_analysis",
                 Outcome("financial_analysis"),
                 table,
                 [section |-> "financial_analysis",
                  Total_Revenue |-> Format(Crores(total_revenue(data)), 1),
                  Total_Profit |-> Format(Crores(total_profit(data)), 1),
                  Overall_Margin |-> Format(overall_margin(data), 2),
                  Average_Margin |-> Format(avg_margin(data), 2),
                  Ranking |-> RankingLines(top_chains)])

(***************************************************************************)
(* category_analysis                                                       *)
(***************************************************************************)
CategoryAgg(g, cat) ==
    [category |-> cat,
     sales_amount |-> Round(Sum(g, "sales_amount"), 2),
     net_profit |-> Round(Sum(g, "net_profit"), 2),
     net_margin_pct |-> Round(Mean(g, "net_margin_pct"), 2),
     customer_count |-> Round(Sum(g, "customer_count"), 2)]

\* WithShares, had the shares been fractions and not percentages (a
\* variant against which C4 is tried)
WithSharesAsFractions(agg) ==
    LET sales_total == Sum(agg, "sales_amount")
        profit_total == Sum(agg, "net_profit")
    IN  [i \in DOMAIN agg |->
            [category |-> agg[i].category,
             sales_amount |-> agg[i].sales_amount,
             net_profit |-> agg[i].net_profit,
             net_margin_pct |-> agg[i].net_margin_pct,
             customer_count |-> agg[i].customer_count,
             Sales_Share_pct |-> Round(NumDiv(agg[i].sales_amount, sales_total), 1),
             Profit_Contribution |-> Round(NumDiv(agg[i].net_profit, profit_total), 1)]]

\* Sales_Share_% and Profit_Contribution: each group's value over the sum
\* of the groups' values, times 100, to one decimal
WithShares(agg) ==
    LET sales_total == Sum(agg, "sales_amount")
        profit_total == Sum(agg, "net_profit")
    IN  [i \in DOMAIN agg |->
            [category |-> agg[i].category,
             sales_amount |-> agg[i].sales_amount,
             net_profit |-> agg[i].net_profit,
             net_margin_pct |-> agg[i].net_margin_pct,
             customer_count |-> agg[i].customer_count,
             Sales_Share_pct |-> Round(Pct(agg[i].sales_amount, sales_total), 1),
             Profit_Contribution |-> Round(Pct(agg[i].net_profit, profit_total), 1)]]

category_metrics(rows) ==
    LET keys == GroupKeys(rows, <<"category">>)
    IN  WithShares([i \in DOMAIN keys |->
            CategoryAgg(GroupRows(rows, <<"category">>, keys[i]), keys[i][1])])

\* "ok" if the margin is over 5, "warn" if over 0, else "loss"; a NaN
\* compares False
profit_status(m) ==
    IF IsNaN(m) THEN "loss"
    ELSE IF ValLt(Whole(5), m) THEN "ok"
    ELSE IF ValLt(Zero, m) THEN "warn"
    ELSE "loss"

CategoryLines(t) ==
    [i \in DOMAIN t |->
        [status |-> profit_status(t[i].net_margin_pct),
         category |-> t[i].category,
         share |-> t[i].Sales_Share_pct,
         margin |-> Format(t[i].net_margin_pct, 1)]]

category_analysis ==
    LET ok == HasColumns("category_analysis")
        table == IF ok THEN category_metrics(data) ELSE <<>>
    IN  Call("category_analysis",
             Outcome("category_analysis"),
             table,
             [section |-> "category_analysis", Lines |-> CategoryLines(table)])

(***************************************************************************)
(* regional_analysis                                                       *)
(***************************************************************************)
RegionRow(g, reg) ==
    LET sales_amount == Round(Sum(g, "sales_amount"), 0)
        net_profit == Round(Sum(g, "net_profit"), 0)
        store_id == Round(Whole(NUnique(g, "store_id")), 0)
    IN  [region |-> reg,
         sales_amount |-> sales_amount,
         net_profit |-> net_profit,
         store_id |-> store_id,
         customer_count |-> Round(Sum(g, "customer_count"), 0),
         Sales_Per_Store |-> Round(NumDiv(sales_amount, store_id), 0),
         Profit_Margin |-> Round(Pct(net_profit, sales_amount), 2)]

regional_metrics(rows) ==
    LET keys == GroupKeys(rows, <<"region">>)
    IN  [i \in DOMAIN keys |->
            RegionRow(GroupRows(rows, <<"region">>, keys[i]), keys[i][1])]

TierRow(g, tr) ==
    [tier |-> tr,
     sales_amount |-> Round(Sum(g, "sales_amount"), 2),
     net_margin_pct |-> Round(Mean(g, "net_margin_pct"), 2)]

tier_analysis(rows) ==
    LET keys == GroupKeys(rows, <<"tier">>)
    IN  [i \in DOMAIN keys |->
            TierRow(GroupRows(rows, <<"tier">>, keys[i]), keys[i][1])]

RegionLines(by_sales) ==
    [i \in DOMAIN by_sales |->
        [region |-> by_sales[i].region,
         sales |-> Format(Crores(by_sales[i].sales_amount), 1),
         margin |-> Format(by_sales[i].Profit_Margin, 1)]]

TierLines(t) ==
    [i \in DOMAIN t |->
        [tier |-> t[i].tier, margin |-> Format(t[i].net_margin_pct, 1)]]

regional_analysis ==
    LET ok == HasColumns("regional_analysis")
        regions == IF ok THEN regional_metrics(data) ELSE <<>>
        tiers == IF ok THEN tier_analysis(data) ELSE <<>>
    IN  \E by_sales \in SortValues(regions, "sales_amount", FALSE) :
            Call("regional_analysis",
                 Outcome("regional_analysis"),
                 [regional_metrics |-> regions, tier_analysis |-> tiers],
                 [section |-> "regional_analysis",
                  Regions |-> RegionLines(by_sales),
                  Tiers |-> TierLines(tiers)])

(***************************************************************************)
(* time_series_analysis                                                    *)
(***************************************************************************)
RECURSIVE Digits(_)
Digits(n) ==
    IF n < 10 THEN <<n>> ELSE Append(Digits(n \div 10), n % 10)

\* str.zfill(w)
ZFill(ds, w) == IF Len(ds) >= w THEN ds ELSE Zeros(w - Len(ds)) \o ds

\* year.astype(str) + '-' + month.astype(str).str.zfill(2), the digits
month_year(y, m) == <<Digits(y), "-", ZFill(Digits(m), 2)>>

MonthAgg(g, y, m) ==
    LET sales_amount == Sum(g, "sales_amount")
        net_profit == Sum(g, "net_profit")
    IN  [year |-> y,
         month |-> m,
         sales_amount |-> sales_amount,
         net_profit |-> net_profit,
         customer_count |-> Sum(g, "customer_count"),
         month_year |-> month_year(y, m),
         profit_margin |-> Round(Pct(net_profit, sales_amount), 2)]

\* pct_change_100, had each row been taken against the first row (a
\* variant against which C5 is tried)
pct_change_from_first(col) ==
    [i \in DOMAIN col |->
        IF i = 1 THEN F64NaN ELSE PctChange100(col[1], col[i])]

\* pct_change() * 100 of a column: no value for the first row, then each
\* row against the row before it
pct_change_100(col) ==
    [i \in DOMAIN col |->
        IF i = 1 THEN F64NaN ELSE PctChange100(col[i - 1], col[i])]

monthly_trends(rows) ==
    LET keys == GroupKeys(rows, <<"year", "month">>)
        agg == [i \in DOMAIN keys |->
                   MonthAgg(GroupRows(rows, <<"year", "month">>, keys[i]),
                            keys[i][1], keys[i][2])]
        sales_growth == pct_change_100(Column(agg, "sales_amount"))
        customer_growth == pct_change_100(Column(agg, "customer_count"))
    IN  [i \in DOMAIN agg |->
            [year |-> agg[i].year,
             month |-> agg[i].month,
             sales_amount |-> agg[i].sales_amount,
             net_profit |-> agg[i].net_profit,
             customer_count |-> agg[i].customer_count,
             month_year |-> agg[i].month_year,
             profit_margin |-> agg[i].profit_margin,
             sales_growth |-> sales_growth[i],
             customer_growth |-> customer_growth[i]]]

BitsGreater(a, b) ==
    \E i \in DOMAIN a : a[i] > b[i] /\ \A j \in 1..(i - 1) : a[j] = b[j]

\* x > 0 and x < -5 of a binary64 value; both False of a NaN
F64Positive(x) == x.k \in {"fin", "inf"} /\ x.s = 0

F64BelowMinus5(x) ==
    \/ x.k = "inf" /\ x.s = 1
    \/ /\ x.k = "fin"
       /\ x.s = 1
       /\ \/ x.e > 2
          \/ x.e = 2 /\ BitsGreater(x.m, <<1, 0, 1>> \o Zeros(50))

growth_indicator(g) ==
    IF F64Positive(g) THEN "up" ELSE IF F64BelowMinus5(g) THEN "down" ELSE "flat"

RecentLines(recent_data) ==
    [i \in DOMAIN recent_data |->
        [indicator |-> growth_indicator(recent_data[i].sales_growth),
         month_year |-> recent_data[i].month_year,
         sales |-> Format(Millions(recent_data[i].sales_amount), 1),
         growth |-> recent_data[i].sales_growth]]

\* groupby('month')['sales_amount'].mean()
seasonal_performance(rows) == MeanBy(rows, <<"month">>, "sales_amount")

time_series_analysis ==
    LET ok == HasColumns("time_series_analysis")
        table == IF ok THEN monthly_trends(data) ELSE <<>>
        seasons == IF ok THEN seasonal_performance(data) ELSE <<>>
    IN  Call("time_series_analysis",
             Outcome("time_series_analysis"),
             table,
             [section |-> "time_series_analysis",
              Recent |-> RecentLines(TailRows(table, 6)),
              peak_month |-> IdxMax(seasons),
              low_month |-> IdxMin(seasons)])

(***************************************************************************)
(* operational_analysis                                                    *)
(***************************************************************************)
StoreRow(g, key) ==
    LET sales_amount == Sum(g, "sales_amount")
        net_profit == Sum(g, "net_profit")
        customer_count == Sum(g, "customer_count")
    IN  [store_id |-> key[1],
         chain_name |-> key[2],
         tier |-> key[3],
         sales_amount |-> sales_amount,
         net_profit |-> net_profit,
         customer_count |-> customer_count,
         sales_per_customer |-> Round(NumDiv(sales_amount, customer_count), 0),
         profit_margin |-> Round(Pct(net_profit, sales_amount), 2)]

store_efficiency(rows) ==
    LET by == <<"store_id", "chain_name", "tier">>
        keys == GroupKeys(rows, by)
    IN  [i \in DOMAIN keys |-> StoreRow(GroupRows(rows, by, keys[i]), keys[i])]

StoreLines(stores) ==
    [i \in DOMAIN stores |->
        [store_id |-> stores[i].store_id,
         chain_name |-> stores[i].chain_name,
         tier |-> stores[i].tier,
         margin |-> Format(stores[i].profit_margin, 1)]]

operational_analysis ==
    LET ok == HasColumns("operational_analysis")
        table == IF ok THEN store_efficiency(data) ELSE <<>>
    IN  \E top_stores \in NLargest(table, 5, "profit_margin"),
           bottom_stores \in NSmallest(table, 5, "profit_margin") :
            Call("operational_analysis",
                 Outcome("operational_analysis"),
                 table,
                 [section |-> "operational_analysis",
                  top_stores |-> top_stores,
                  bottom_stores |-> bottom_stores,
                  Top |-> StoreLines(top_stores),
                  Bottom |-> StoreLines(bottom_stores)])

(***************************************************************************)
(* statistical_insights                                                    *)
(***************************************************************************)
numeric_cols ==
    <<"sales_amount", "gross_margin_pct", "customer_count", "avg_basket_value",
      "inventory_turnover_ratio", "customer_satisfaction_score">>

\* self.data[self.data['tier'] == t]['sales_amount']
TierSales(rows, t) ==
    Column(SelectSeq(rows, LAMBDA r : r.tier = t), "sales_amount")

\* The p-values stats.ttest_ind(a, b) can return, as "nan", "lt" (under
\* 0.05) or "ge".  With an empty sample, with no degree of freedom, or with
\* two constant samples of one mean the statistic is undefined and p is
\* NaN; nothing is raised.  Two constant samples of different means give
\* an infinite statistic and p = 0.  Otherwise p is a number of [0, 1]; the
\* t distribution is not modelled, so both sides of 0.05 are possible.
ttest_ind(a, b) ==
    IF Len(a) = 0 \/ Len(b) = 0 THEN {"nan"}
    ELSE IF Len(a) + Len(b) - 2 = 0 THEN {"nan"}
    ELSE IF Cardinality(Range(a)) = 1 /\ Cardinality(Range(b)) = 1
         THEN (IF a[1] = b[1] THEN {"nan"} ELSE {"lt"})
    ELSE {"lt", "ge"}

\* 'Significant' if p_value < 0.05 else 'Not Significant'
Decision(p_value) == IF p_value = "lt" THEN "Significant" ELSE "Not Significant"

statistical_insights ==
    LET ok == HasColumns("statistical_insights")
        metro_sales == IF ok THEN TierSales(data, "Metro") ELSE <<>>
        tier1_sales == IF ok THEN TierSales(data, "Tier_1") ELSE <<>>
    IN  \E p_value \in ttest_ind(metro_sales, tier1_sales) :
            Call("statistical_insights",
                 Outcome("statistical_insights"),
                 [correlation_matrix |-> numeric_cols],
                 [section |-> "statistical_insights",
                  p_value |-> p_value,
                  Decision |-> Decision(p_value)])

(***************************************************************************)
(* generate_visualizations                                                 *)
(***************************************************************************)
ChainMetricsRow(g, chain) ==
    [chain_name |-> chain,
     sales_amount |-> Sum(g, "sales_amount"),
     net_margin_pct |-> Mean(g, "net_margin_pct"),
     customer_count |-> Sum(g, "customer_count")]

chain_metrics(rows) ==
    LET keys == GroupKeys(rows, <<"chain_name">>)
    IN  [i \in DOMAIN keys |->
            ChainMetricsRow(GroupRows(rows, <<"chain_name">>, keys[i]), keys[i][1])]

MonthlyDataRow(g, y, m) ==
    [year |-> y,
     month |-> m,
     sales_amount |-> Sum(g, "sales_amount"),
     net_profit |-> Sum(g, "net_profit")]

monthly_data(rows) ==
    LET keys == GroupKeys(rows, <<"year", "month">>)
    IN  [i \in DOMAIN keys |->
            MonthlyDataRow(GroupRows(rows, <<"year", "month">>, keys[i]),
                           keys[i][1], keys[i][2])]

generate_visualizations ==
    Call("generate_visualizations",
         Outcome("generate_visualizations"),
         None,
         [section |-> "generate_visualizations",
          chain_metrics |-> chain_metrics(data),
          monthly_data |-> monthly_data(data),
          saved |-> {"chain_performance_analysis.png", "category_margin_heatmap.png",
                     "monthly_trends.png"}])

(***************************************************************************)
(* generate_executive_summary                                              *)
(***************************************************************************)
\* idxmax() of an empty series raises ValueError
SummaryError(rows) ==
    IF ~HasColumns("generate_executive_summary")
    THEN KeyError("generate_executive_summary")
    ELSE IF \/ MeanBy(rows, <<"chain_name">>, "net_margin_pct") = <<>>
            \/ MeanBy(rows, <<"category">>, "net_margin_pct") = <<>>
            \/ MeanBy(rows, <<"region">>, "net_margin_pct") = <<>>
         THEN ValueError
    ELSE NoException

generate_executive_summary ==
    Call("generate_executive_summary",
         SummaryError(data),
         None,
         [section |-> "generate_executive_summary",
          Total_Revenue |-> Format(Crores(total_revenue(data)), 1),
          Net_Profit |-> Format(Crores(total_profit(data)), 1),
          Overall_Margin |-> Format(overall_margin(data), 2),
          Stores_Analyzed |-> NUnique(data, "store_id"),
          best_chain |-> IdxMax(MeanBy(data, <<"chain_name">>, "net_margin_pct")),
          best_category |-> IdxMax(MeanBy(data, <<"category">>, "net_margin_pct")),
          best_region |-> IdxMax(MeanBy(data, <<"region">>, "net_margin_pct"))])

(***************************************************************************)
(* An analyzer after RetailAnalytics.__init__: the rows as read, the date  *)
(* column added.  Its methods can then be called in any order.             *)
(***************************************************************************)
Init ==
    /\ data \in Datasets
    /\ columns = AllColumns \cup {"date"}
    /\ last = "__init__"
    /\ returned = None
    /\ printed = [loaded |-> Len(data)]
    /\ raised = NoException
    /\ pc = 1
    /\ stderr = <<>>

Next ==
    \/ data_quality_check /\ UNCHANGED <<pc, stderr>>
    \/ financial_analysis /\ UNCHANGED <<pc, stderr>>
    \/ category_analysis /\ UNCHANGED <<pc, stderr>>
    \/ regional_analysis /\ UNCHANGED <<pc, stderr>>
    \/ time_series_analysis /\ UNCHANGED <<pc, stderr>>
    \/ operational_analysis /\ UNCHANGED <<pc, stderr>>
    \/ statistical_insights /\ UNCHANGED <<pc, stderr>>
    \/ generate_visualizations /\ UNCHANGED <<pc, stderr>>
    \/ generate_executive_summary /\ UNCHANGED <<pc, stderr>>

Spec == Init /\ [][Next]_vars

(***************************************************************************)
(* main(): the analyzer is built from the CSV file, the nine report steps  *)
(* run in the order written and the completion message is printed.         *)
(* Nothing catches an exception: the first one raised ends the run, and    *)
(* the interpreter writes its traceback, which names the call that raised, *)
(* on stderr.  pc is 0 before the analyzer is built, k before step k, and  *)
(* NumSteps + 1 before the completion message.                             *)
(***************************************************************************)
Steps ==
    <<"data_quality_check", "financial_analysis", "category_analysis",
      "regional_analysis", "time_series_analysis", "operational_analysis",
      "statistical_insights", "generate_visualizations",
      "generate_executive_summary">>

NumSteps == Len(Steps)

Traceback(callee, exc) ==
    [frames |-> <<"<module>", "main", callee>>, exception |-> exc]

\* RetailAnalytics.__init__: read_csv, then the date column from year and
\* month
__init__ ==
    /\ last' = "__init__"
    /\ data' = data
    /\ returned' = None
    /\ IF HasColumns("__init__")
       THEN /\ columns' = columns \cup {"date"}
            /\ printed' = [loaded |-> Len(data)]
            /\ raised' = NoException
       ELSE /\ columns' = columns
            /\ printed' = [section |-> "main"]
            /\ raised' = KeyError("__init__")

Method(m) ==
    \/ m = "data_quality_check" /\ data_quality_check
    \/ m = "financial_analysis" /\ financial_analysis
    \/ m = "category_analysis" /\ category_analysis
    \/ m = "regional_analysis" /\ regional_analysis
    \/ m = "time_series_analysis" /\ time_series_analysis
    \/ m = "operational_analysis" /\ operational_analysis
    \/ m = "statistical_insights" /\ statistical_insights
    \/ m = "generate_visualizations" /\ generate_visualizations
    \/ m = "generate_executive_summary" /\ generate_executive_summary

\* Propagate, had main caught the exception, reported it and gone on (a
\* variant against which C7 is tried)
PropagateAndGoOn(callee) ==
    /\ pc' = pc + 1
    /\ stderr' = IF raised' = NoException THEN stderr
                 ELSE Append(stderr, Traceback(callee, raised'))

\* what follows a call of main: the next statement, or the end of the run
\* with the traceback on stderr
Propagate(callee) ==
    IF raised' = NoException
    THEN /\ pc' = pc + 1
         /\ stderr' = stderr
    ELSE /\ pc' = pc
         /\ stderr' = Append(stderr, Traceback(callee, raised'))

main_init ==
    /\ pc = 0
    /\ raised = NoException
    /\ __init__
    /\ Propagate("__init__")

main_step ==
    /\ pc \in 1..NumSteps
    /\ raised = NoException
    /\ Method(Steps[pc])
    /\ Propagate(Steps[pc])

main_return ==
    /\ pc = NumSteps + 1
    /\ raised = NoException
    /\ last' = "main"
    /\ printed' = [section |-> "main",
                   message |-> "Comprehensive retail analysis completed!"]
    /\ returned' = [type |-> "RetailAnalytics"]
    /\ pc' = pc + 1
    /\ UNCHANGED <<data, columns, raised, stderr>>

\* The CSV files of the runs: up to MainRows rows, and up to MaxMissing of
\* the expected columns absent.
CsvColumns ==
    {AllColumns \ missing : missing \in
        {m \in SUBSET AllColumns : Cardinality(m) <= MaxMissing}}

InitMain ==
    /\ data \in SeqsUpTo(RowPool, MainRows) \ {<<>>}
    /\ columns \in CsvColumns
    /\ last = "main"
    /\ returned = None
    /\ printed = [section |-> "main"]
    /\ raised = NoException
    /\ pc = 0
    /\ stderr = <<>>

NextMain == main_init \/ main_step \/ main_return

SpecMain == InitMain /\ [][NextMain]_vars

(***************************************************************************)
(* A chain of NumStores stores, one row each: the datasets on which the    *)
(* per-store table has more rows than the two selections take.  A store's  *)
(* margin is high, or low for up to MaxLow of them, and up to MaxIdle      *)
(* stores sold nothing, so their margin is undefined.                      *)
(***************************************************************************)
StoreNames ==
    <<"S01", "S02", "S03", "S04", "S05", "S06", "S07", "S08", "S09", "S10",
      "S11", "S12", "S13">>

StoreRecord(i, profile) ==
    LET chain == IF i % 2 = 1 THEN "A" ELSE "B"
    IN  CASE profile = "high" ->
               Row(StoreNames[i], chain, "Grocery", "North", "Metro", 2023, 1,
                   800, 80, 80, 10)
          [] profile = "low" ->
               Row(StoreNames[i], chain, "Grocery", "North", "Metro", 2023, 1,
                   800, 40, 40, 10)
          [] profile = "idle" ->
               Row(StoreNames[i], chain, "Grocery", "North", "Metro", 2023, 1,
                   0, 0, 0, 0)

StoreProfiles ==
    {f \in [1..NumStores -> {"high", "low", "idle"}] :
        /\ Cardinality({i \in 1..NumStores : f[i] = "low"}) <= MaxLow
        /\ Cardinality({i \in 1..NumStores : f[i] = "idle"}) <= MaxIdle}

\* the file lists the stores last to first
StoreDataset(f) ==
    [i \in 1..NumStores |-> StoreRecord(NumStores + 1 - i, f[NumStores + 1 - i])]

InitStores ==
    /\ data \in {StoreDataset(f) : f \in StoreProfiles}
    /\ columns = AllColumns \cup {"date"}
    /\ last = "__init__"
    /\ returned = None
    /\ printed = [loaded |-> Len(data)]
    /\ raised = NoException
    /\ pc = 1
    /\ stderr = <<>>

NextStores ==
    \/ operational_analysis /\ UNCHANGED <<pc, stderr>>
    \/ financial_analysis /\ UNCHANGED <<pc, stderr>>

SpecStores == InitStores /\ [][NextStores]_vars

(***************************************************************************)
(* Properties.                                                             *)
(***************************************************************************)
NumSub(x, y) == NumAdd(x, NumMul(Whole(-1), y))

NumAbs(x) == IF IsFin(x) /\ x.n < 0 THEN RatOf(-x.n, x.d) ELSE x

\* two finite values no further apart than tol
Within(x, y, tol) ==
    IsFin(x) /\ IsFin(y) /\ ~NumLess(tol, NumAbs(NumSub(x, y)))

Min(a, b) == IF a < b THEN a ELSE b

\* the rows of tbl in the order of a stable sort by column by, the first n
StableFirst(tbl, n, by, ascending) ==
    LET order == StableOrder(DOMAIN tbl, tbl, by, ascending)
    IN  [i \in 1..Min(n, Len(tbl)) |-> tbl[order[i]]]

\* C1: for every grouping of a report, the groups' sales add up to the
\* sales of all rows of the dataset (every row is in exactly one group), up
\* to the half unit per group by which the report rounds a group's sum.
C1_GroupSalesAddUp ==
    raised = NoException =>
        /\ last = "financial_analysis" =>
               Within(Sum(returned, "Total_Sales"), total_revenue(data),
                      RatOf(Len(returned), 2))
        /\ last = "category_analysis" =>
               Within(Sum(returned, "sales_amount"), total_revenue(data),
                      RatOf(Len(returned), 2))
        /\ last = "regional_analysis" =>
               /\ Within(Sum(returned.regional_metrics, "sales_amount"),
                         total_revenue(data),
                         RatOf(Len(returned.regional_metrics), 2))
               /\ Within(Sum(returned.tier_analysis, "sales_amount"),
                         total_revenue(data),
                         RatOf(Len(returned.tier_analysis), 2))
        /\ last = "time_series_analysis" =>
               Sum(returned, "sales_amount") = total_revenue(data)
        /\ last = "operational_analysis" =>
               Sum(returned, "sales_amount") = total_revenue(data)

\* C2: when no row is of tier Metro, or none of tier Tier_1,
\* statistical_insights raises and prints no decision.
C2_EmptyTierGroupRaises ==
    (/\ last = "statistical_insights"
     /\ \/ TierSales(data, "Metro") = <<>>
        \/ TierSales(data, "Tier_1") = <<>>)
        => /\ raised # NoException
           /\ "Decision" \notin DOMAIN printed

\* C3: when the per-store table has more than 10 rows, the top stores and
\* the bottom stores are 5 rows each, no row is in both, and with the rows
\* in neither they are the rows of the table, each once.
C3_TopAndBottomDisjoint ==
    (/\ last = "operational_analysis"
     /\ raised = NoException
     /\ Len(returned) > 10)
        => LET top == Range(printed.top_stores)
               bottom == Range(printed.bottom_stores)
               rest == Range(returned) \ (top \cup bottom)
           IN  /\ Len(printed.top_stores) = 5
               /\ Len(printed.bottom_stores) = 5
               /\ top \cap bottom = {}
               /\ Cardinality(top) + Cardinality(bottom) + Cardinality(rest)
                      = Len(returned)

F64Neg(x) == IF x.k = "nan" THEN x ELSE [x EXCEPT !.s = 1 - x.s]

\* (cur - prev) / prev * 100 in binary64, for two values binary64 holds
\* exactly and whose difference it holds exactly
FormulaGrowth(prev, cur) ==
    LET diff == NumSub(cur, prev)
        q == F64Div(NumAbs(diff), prev)
    IN  F64Mul100(IF diff.n < 0 THEN F64Neg(q) ELSE q)

\* a finite value cut (nearest = FALSE) or rounded to nearest (TRUE) to p
\* bits
F64Coarse(x, p, nearest) ==
    IF x.k # "fin" THEN x
    ELSE LET top == SubSeq(x.m, 1, p)
         IN  IF ~nearest \/ x.m[p + 1] = 0
             THEN [k |-> "fin", s |-> x.s, e |-> x.e, m |-> top]
             ELSE IF top = Ones(p)
                  THEN [k |-> "fin", s |-> x.s, e |-> x.e + 1, m |-> <<1>> \o Zeros(p - 1)]
             ELSE [k |-> "fin", s |-> x.s, e |-> x.e, m |-> IncBits(top)]

\* two binary64 values that agree to about nine significant digits: cut or
\* rounded to 30 bits they are one value
F64Near(x, y) ==
    \/ F64Coarse(x, 30, FALSE) = F64Coarse(y, 30, FALSE)
    \/ F64Coarse(x, 30, TRUE) = F64Coarse(y, 30, TRUE)

\* 20.0 and the binary64 value next below it, 19.999999999999996
F64Twenty == [k |-> "fin", s |-> 0, e |-> 4, m |-> <<1, 0, 1>> \o Zeros(50)]

F64BelowTwenty == [k |-> "fin", s |-> 0, e |-> 4, m |-> <<1, 0, 0>> \o Ones(50)]

ChronologicalOrder(tbl) ==
    \A i, j \in DOMAIN tbl :
        i < j => KeyLess(<<"year", "month">>,
                         <<tbl[i].year, tbl[i].month>>,
                         <<tbl[j].year, tbl[j].month>>)

\* sales of 100 in one month and 120 in the next
From100To120(tbl, i) ==
    /\ tbl[i - 1].sales_amount = Whole(100)
    /\ tbl[i].sales_amount = Whole(120)

Undefined(divisor, metric) == divisor = Zero => IsNaN(metric)

\* C6: a metric whose divisor is zero is NaN, and the method does not
\* raise.
C6_ZeroDivisorGivesNaN ==
    /\ (last = "financial_analysis" /\ total_revenue(data) = Zero) =>
               /\ raised = NoException
               /\ IsNaN(printed.Overall_Margin)
    /\ (last = "category_analysis" /\ raised = NoException) =>
           \A i \in DOMAIN returned :
               /\ Undefined(Sum(returned, "sales_amount"),
                            returned[i].Sales_Share_pct)
               /\ Undefined(Sum(returned, "net_profit"),
                            returned[i].Profit_Contribution)
    /\ (last = "regional_analysis" /\ raised = NoException) =>
           \A i \in DOMAIN returned.regional_metrics :
               LET r == returned.regional_metrics[i]
               IN  /\ Undefined(r.store_id, r.Sales_Per_Store)
                   /\ Undefined(r.sales_amount, r.Profit_Margin)
    /\ (last = "time_series_analysis" /\ raised = NoException) =>
           \A i \in DOMAIN returned :
               Undefined(returned[i].sales_amount, returned[i].profit_margin)
    /\ (last = "operational_analysis" /\ raised = NoException) =>
           \A i \in DOMAIN returned :
               /\ Undefined(returned[i].customer_count,
                            returned[i].sales_per_customer)
               /\ Undefined(returned[i].sales_amount, returned[i].profit_margin)

\* the k-th call of main: the constructor, then the steps
Callee(k) == IF k = 0 THEN "__init__" ELSE Steps[k]

\* the call raises: a column it reads is not in the file, or the summary
\* finds no chain, category or region
Fatal(k) ==
    \/ (Range(Needs(Callee(k))) \ {"date"}) \ columns # {}
    \/ k = NumSteps /\ SummaryError(data) # NoException

\* the call main returned from last, when pc is k and nothing was raised
Completed(k) ==
    IF k = 0 \/ k = NumSteps + 2 THEN "main" ELSE Callee(k - 1)

C7_RunState ==
    /\ pc \in 0..(NumSteps + 2)
    /\ raised = NoException =>
           /\ stderr = <<>>
           /\ last = Completed(pc)
           /\ \A j \in 0..(pc - 1) : j <= NumSteps => ~Fatal(j)
    /\ raised # NoException =>
           /\ pc <= NumSteps
           /\ last = Callee(pc)
           /\ stderr = <<Traceback(Callee(pc), raised)>>
           /\ Fatal(pc)
           /\ \A j \in 0..(pc - 1) : ~Fatal(j)
    /\ "message" \in DOMAIN printed <=> pc = NumSteps + 2

C7_RunStep ==
    /\ raised = NoException
    /\ \/ pc' = pc + 1 /\ raised' = NoException
       \/ pc' = pc /\ raised' # NoException

\* C7: main makes its calls in the order written; a run ends after the
\* ninth step with the completion message, or at the first call that
\* raises, which the traceback on stderr names, and no call follows it.
C7_MainStopsAtFirstFailure == [](C7_RunState) /\ [][C7_RunStep]_vars

\* a run that three steps completed and regional_analysis ended
C7_StoppedAtRegionalAnalysis ==
    /\ pc = 4
    /\ raised # NoException
    /\ stderr[1].frames[3] = "regional_analysis"

\* the rows of the example: chain "A", sales 100, 200 and 300, profits 10,
\* 10 and 15, margins 10, 5 and 5
ExampleRows ==
    { Row("S01", "A", "Fashion", "North", "Metro", 2023, 1, 800, 80, 80, 10),
      Row("S01", "A", "Grocery", "North", "Metro", 2023, 2, 1600, 80, 40, 20),
      Row("S02", "A", "Electronics", "South", "Tier_1", 2024, 1, 2400, 120, 40, 30) }

IsExample(rows) == Len(rows) = 3 /\ Range(rows) = ExampleRows

\* C8: on the three example rows chain "A" has total sales 600 and total
\* profit 35; the margin of the totals is 35/600*100 (printed 5.83), the
\* mean of the rows' margins is 20/3 (printed 6.67), each computed from its
\* own columns, and they differ.
C8_ExampleMargins ==
    (IsExample(data) /\ last = "financial_analysis") =>
        /\ Len(returned) = 1
        /\ returned[1].chain_name = "A"
        /\ returned[1].Total_Sales = Whole(600)
        /\ returned[1].Total_Profit = Whole(35)
        /\ returned[1].Avg_Margin = RatOf(667, 100)
        /\ overall_margin(data) = RatOf(35, 6)
        /\ avg_margin(data) = RatOf(20, 3)
        /\ printed.Overall_Margin = RatOf(583, 100)
        /\ printed.Average_Margin = RatOf(667, 100)
        /\ printed.Overall_Margin # printed.Average_Margin

\* financial_analysis has reported on the example rows
C8_ExampleReported ==
    /\ IsExample(data)
    /\ last = "financial_analysis"
    /\ returned[1].Total_Sales = Whole(600)

\* C9: no method call changes self.data: its rows, their order, its
\* columns and its values stay as __init__ left them.
C9_DataNeverWritten == [][data' = data /\ columns' = columns]_vars

\* time_series_analysis has returned its table of derived columns, after
\* another method
C9_DerivedTableReturned ==
    /\ last = "time_series_analysis"
    /\ Len(returned) > 1
    /\ "month_year" \in DOMAIN returned[1]
    /\ "month_year" \notin columns

\* C10: rows of equal margin are ranked in the order of the table they
\* come from: the chain ranking of financial_analysis, and the top and
\* bottom stores of operational_analysis.
C10_TiesKeepTableOrder ==
    /\ (last = "financial_analysis" /\ raised = NoException) =>
           printed.Ranking =
               RankingLines(StableFirst(returned, Len(returned), "Avg_Margin", FALSE))
    /\ (last = "operational_analysis" /\ raised = NoException) =>
           /\ printed.top_stores = StableFirst(returned, 5, "profit_margin", FALSE)
           /\ printed.bottom_stores = StableFirst(returned, 5, "profit_margin", TRUE)

=============================================================================
